---------------------------- MODULE Spec2Model ----------------------------
(***************************************************************************)
(* Model of the map dashboard component (MapDashboard) and of the /api/data *)
(* route that feeds it.                                                     *)
(*                                                                          *)
(* JavaScript values are tagged records (JsString, JsNumber, JsNull,        *)
(* JsUndefined); JavaScript strings are TLA+ strings, taken apart with      *)
(* SubSeq, so that replace / trim / split / parseFloat / Number / toFixed   *)
(* are computed character by character as the engine computes them.         *)
(* A JavaScript number is a fixed-point integer in units of 10^-6 (Micro);  *)
(* the input strings of the model carry at most six fraction digits, so     *)
(* the representation is exact for them.  The inputs are written with      *)
(* digits, sign, dot, comma, parentheses, blanks and letters, and none of   *)
(* them holds an exponent, a hexadecimal literal or Infinity: those forms   *)
(* of the numeric grammar are not exercised.                                *)
(***************************************************************************)
EXTENDS Integers, Sequences, FiniteSets, TLC

VARIABLES
    data,       \* useState<GroupedItem[]>: the published buckets
    allPins,    \* useState<string[]>: the published, sorted postal codes
    zoomLevel,  \* useState(11): the zoom the circles are scaled with
    filterPin,  \* useState(""): the postal code selected in the dropdown
    pc,         \* per fetchData invocation: "idle" | "awaiting" | "done" | "failed"
    res,        \* per fetchData invocation: the response axios resolved with
    count,      \* the count prop of the circle being rendered
    radius      \* the radius prop of that circle: getRadius(count, zoomLevel)

vars == <<data, allPins, zoomLevel, filterPin, pc, res, count, radius>>

-----------------------------------------------------------------------------
(* JavaScript values *)

JsNull == [t |-> "null", s |-> "", n |-> 0]
JsUndefined == [t |-> "undefined", s |-> "", n |-> 0]
JsString(str) == [t |-> "string", s |-> str, n |-> 0]
JsNumber(num) == [t |-> "number", s |-> "", n |-> num]

Micro == 10^6

\* A parsed number: NaN, or a finite value in units of 10^-6.
NaN == [nan |-> TRUE, v |-> 0]
Finite(v) == [nan |-> FALSE, v |-> v]

-----------------------------------------------------------------------------
(* String primitives *)

At(s, i) == SubSeq(s, i, i)

Digits == <<"0", "1", "2", "3", "4", "5", "6", "7", "8", "9">>
IsDigit(c) == \E d \in 1..10 : Digits[d] = c
DigitVal(c) == (CHOOSE d \in 1..10 : Digits[d] = c) - 1
IsSpace(c) == c \in {" ", "\t", "\n", "\r"}

\* String.prototype.replace(/[()]/g, ""): every parenthesis removed.
RECURSIVE StripParens(_)
StripParens(s) ==
    IF s = "" THEN ""
    ELSE IF At(s, 1) \in {"(", ")"} THEN StripParens(Tail(s))
    ELSE At(s, 1) \o StripParens(Tail(s))

RECURSIVE TrimStart(_)
TrimStart(s) ==
    IF s # "" /\ IsSpace(At(s, 1)) THEN TrimStart(Tail(s)) ELSE s

RECURSIVE TrimEnd(_)
TrimEnd(s) ==
    IF s # "" /\ IsSpace(At(s, Len(s)))
    THEN TrimEnd(SubSeq(s, 1, Len(s) - 1)) ELSE s

\* String.prototype.trim
Trim(s) == TrimEnd(TrimStart(s))

\* String.prototype.split(","): the pieces between the commas, empty ones kept.
RECURSIVE SplitFrom(_, _)
SplitFrom(s, cur) ==
    IF s = "" THEN <<cur>>
    ELSE IF At(s, 1) = "," THEN <<cur>> \o SplitFrom(Tail(s), "")
    ELSE SplitFrom(Tail(s), cur \o At(s, 1))

Split(s) == SplitFrom(s, "")

\* The number of leading digits of s.
RECURSIVE DigitRun(_)
DigitRun(s) ==
    IF s # "" /\ IsDigit(At(s, 1)) THEN 1 + DigitRun(Tail(s)) ELSE 0

\* The value of a string of digits.
RECURSIVE DigitsValue(_)
DigitsValue(s) ==
    IF s = "" THEN 0
    ELSE DigitsValue(SubSeq(s, 1, Len(s) - 1)) * 10 + DigitVal(At(s, Len(s)))

\* The value, in units of 10^-6, of the fraction digits s (six of them read).
FractionValue(s) ==
    LET six == SubSeq(s \o "000000", 1, 6) IN DigitsValue(six)

\* The longest prefix of s that is a StrDecimalLiteral (sign, digits, dot,
\* digits), as [len, v]; len = 0 when there is none.  The literal has ni
\* integer digits and, after a dot, nf fraction digits; one of the two
\* runs of digits may be empty, not both.
NoPrefix == [v |-> 0, len |-> 0]

UnsignedLiteral(body, ni, dot, nf) ==
    IF ni + nf = 0 THEN NoPrefix
    ELSE [v   |-> DigitsValue(SubSeq(body, 1, ni)) * Micro
                    + FractionValue(SubSeq(body, ni + 2, ni + 1 + nf)),
          len |-> ni + (IF dot THEN 1 + nf ELSE 0)]

UnsignedAfterDigits(body, ni) ==
    IF Len(body) > ni /\ At(body, ni + 1) = "."
    THEN UnsignedLiteral(body, ni, TRUE, DigitRun(SubSeq(body, ni + 2, Len(body))))
    ELSE UnsignedLiteral(body, ni, FALSE, 0)

UnsignedPrefix(body) == UnsignedAfterDigits(body, DigitRun(body))

SignedPrefix(sign, u) ==
    IF u.len = 0 THEN NoPrefix
    ELSE [v |-> IF sign = "-" THEN -u.v ELSE u.v, len |-> Len(sign) + u.len]

DecimalPrefix(s) ==
    IF s # "" /\ At(s, 1) \in {"+", "-"}
    THEN SignedPrefix(At(s, 1), UnsignedPrefix(Tail(s)))
    ELSE UnsignedPrefix(s)

NumberOfPrefix(p, len) ==
    IF p.len > 0 /\ p.len >= len THEN Finite(p.v) ELSE NaN

\* parseFloat: leading white space skipped, the longest numeric prefix read,
\* anything after it ignored; NaN when there is no numeric prefix.
parseFloat(s) == NumberOfPrefix(DecimalPrefix(TrimStart(s)), 0)

\* Number(string): white space trimmed, the empty string is 0, and the whole
\* of what is left must be a numeric literal.
NumberOfTrimmed(t) ==
    IF t = "" THEN Finite(0) ELSE NumberOfPrefix(DecimalPrefix(t), Len(t))

ToNumber(s) == NumberOfTrimmed(Trim(s))

\* The decimal digits of a natural number.
RECURSIVE NatToString(_)
NatToString(k) ==
    IF k < 10 THEN Digits[k + 1]
    ELSE NatToString(k \div 10) \o Digits[(k % 10) + 1]

\* k written with exactly w digits (k < 10^w).
RECURSIVE Padded(_, _)
Padded(k, w) ==
    IF w = 0 THEN "" ELSE Padded(k \div 10, w - 1) \o Digits[(k % 10) + 1]

Abs(v) == IF v < 0 THEN -v ELSE v

\* Number.prototype.toFixed(5): rounded to five fraction digits (a tie goes
\* to the larger magnitude), always five digits after the dot.
toFixed5(v) ==
    (IF v < 0 THEN "-" ELSE "")
        \o NatToString(((Abs(v) + 5) \div 10) \div 10^5)
        \o "." \o Padded(((Abs(v) + 5) \div 10) % 10^5, 5)

RECURSIVE StripZeros(_)
StripZeros(s) ==
    IF s # "" /\ At(s, Len(s)) = "0"
    THEN StripZeros(SubSeq(s, 1, Len(s) - 1)) ELSE s

\* Number.prototype.toString: the shortest decimal that reads back.
WithFraction(whole, frac) ==
    IF frac = "" THEN whole ELSE whole \o "." \o frac

NumberToString(v) ==
    (IF v < 0 THEN "-" ELSE "")
        \o WithFraction(NatToString(Abs(v) \div Micro),
                        StripZeros(Padded(Abs(v) % Micro, 6)))

\* The characters of the model's strings in UTF-16 code unit order.
Alphabet == "\t\n\r ()+,-.0123456789U_abcdefghijklmnopqrstuvwxyz|"

CharCode(c) == CHOOSE i \in 1..Len(Alphabet) : At(Alphabet, i) = c

\* a < b as the default Array.prototype.sort comparator orders strings.
RECURSIVE StringLess(_, _)
StringLess(a, b) ==
    IF b = "" THEN FALSE
    ELSE IF a = "" THEN TRUE
    ELSE IF At(a, 1) = At(b, 1) THEN StringLess(Tail(a), Tail(b))
    ELSE CharCode(At(a, 1)) < CharCode(At(b, 1))

-----------------------------------------------------------------------------
(* Coercions of JavaScript values *)

\* Truthiness: what `x || y` and `.filter((x) => x.gps)` test.
Truthy(v) ==
    \/ v.t = "string" /\ v.s # ""
    \/ v.t = "number" /\ v.n # 0
    \/ v.t = "object"

\* String(v), v.toString() and template-literal interpolation of a string
\* or a (natural) number.
JsToString(v) ==
    IF v.t = "string" THEN v.s
    ELSE IF v.t = "number" THEN NatToString(v.n)
    ELSE v.t

\* a || b
Or(a, b) == IF Truthy(a) THEN a ELSE b

-----------------------------------------------------------------------------
(* cleanCoords and the record filter of fetchData *)

\* cleanCoords(gps) for a string gps: [ok, lat, lon].
NoCoords == [ok |-> FALSE, lat |-> 0, lon |-> 0]

\* cleaned.split(",").map(Number)
MapNumber(tokens) == [i \in 1..Len(tokens) |-> ToNumber(tokens[i])]

CoordsOf(parts) ==
    IF Len(parts) # 2 \/ \E i \in 1..Len(parts) : parts[i].nan
    THEN NoCoords
    ELSE [ok |-> TRUE, lat |-> parts[1].v, lon |-> parts[2].v]

cleanCoords(gps) ==
    IF gps = "" THEN NoCoords
    ELSE CoordsOf(MapNumber(Split(Trim(StripParens(gps)))))

\* invalid(v) of the filter: v == null || v === "" || v === "null" || v === "undefined"
invalid(v) ==
    \/ v.t \in {"null", "undefined"}
    \/ v.t = "string" /\ v.s \in {"", "null", "undefined"}

\* clean(gps) of the filter, for a string gps: the two components parsed with
\* parseFloat and written with five decimals, or "" when that fails.
\* cleaned.split(",").map((n) => parseFloat(n.trim()))
MapParseFloat(tokens) == [i \in 1..Len(tokens) |-> parseFloat(Trim(tokens[i]))]

\* parts.map((x) => x.toFixed(5)).join(","), or "" for a bad parts
Normalized(parts) ==
    IF Len(parts) # 2 \/ \E i \in 1..Len(parts) : parts[i].nan
    THEN ""
    ELSE toFixed5(parts[1].v) \o "," \o toFixed5(parts[2].v)

clean(gps) == Normalized(MapParseFloat(Split(Trim(StripParens(gps)))))

\* [a, b, c, d].join("|")
Join4(a, b, c, d) == a \o "|" \o b \o "|" \o c \o "|" \o d

\* Whether the filter callback throws a TypeError on r: a property read of
\* null or undefined, or gps.replace on a value that is not a string.
Throws(r) ==
    \/ r.t \in {"null", "undefined"}
    \/ /\ r.t = "object"
       /\ ~ invalid(r.start_gps) /\ ~ invalid(r.end_gps)
       /\ ~ invalid(r.start_area_code) /\ ~ invalid(r.end_area_code)
       /\ (r.start_gps.t # "string" \/ r.end_gps.t # "string")

\* A Set is the sequence of its values in insertion order.
SetHas(set, v) == \E i \in 1..Len(set) : set[i] = v

\* set.add(v): a value is held once.
SetAdd(set, v) == IF SetHas(set, v) THEN set ELSE Append(set, v)

\* The first test of the callback: a required field is missing.
MissingField(r) ==
    \/ invalid(r.start_gps) \/ invalid(r.end_gps)
    \/ invalid(r.start_area_code) \/ invalid(r.end_area_code)

\* The callback's last step had it looked up the forward fingerprint only.
DedupForwardOnly(st, r, forward, reverse) ==
    IF SetHas(st.seen, forward) THEN st
    ELSE [st EXCEPT !.seen = SetAdd(@, forward), !.kept = Append(@, r)]

\* if (seen.has(forward) || seen.has(reverse)) return false;
\* seen.add(forward); return true;
Dedup(st, r, forward, reverse) ==
    IF SetHas(st.seen, forward) \/ SetHas(st.seen, reverse) THEN st
    ELSE [st EXCEPT !.seen = SetAdd(@, forward), !.kept = Append(@, r)]

\* The callback from its four locals on.
Fingerprinted(st, r, startGPS, endGPS, startPin, endPin) ==
    IF startGPS = "" \/ endGPS = "" THEN st
    ELSE Dedup(st, r, Join4(startGPS, endGPS, startPin, endPin),
                      Join4(endGPS, startGPS, endPin, startPin))

\* One call of the rows.filter callback.  st = [seen, kept, thrown].
FilterStep(st, r) ==
    IF st.thrown THEN st
    ELSE IF Throws(r) THEN [st EXCEPT !.thrown = TRUE]
    ELSE IF MissingField(r) THEN st
    ELSE Fingerprinted(st, r, clean(r.start_gps.s), clean(r.end_gps.s),
                       Trim(JsToString(r.start_area_code)),
                       Trim(JsToString(r.end_area_code)))

\* The callback applied to rows[lo..hi] in order.  The range is halved, and
\* the state so far is looked at before the range is entered, so that the
\* evaluation depth stays logarithmic in the batch length.
RECURSIVE FilterRange(_, _, _, _)
FilterRange(st, rows, lo, hi) ==
    IF st.thrown \/ lo > hi THEN st
    ELSE IF lo = hi THEN FilterStep(st, rows[lo])
    ELSE LET mid == (lo + hi) \div 2
         IN  FilterRange(FilterRange(st, rows, lo, mid), rows, mid + 1, hi)

\* The seen set had it been declared outside fetchData: an invocation would
\* start with the fingerprints of the invocations that completed before it.
RECURSIVE SeenUpTo(_)
SeenUpTo(i) ==
    IF i = 0 THEN <<>>
    ELSE SeenUpTo(i - 1)
           \o (IF pc[i] = "done"
               THEN FilterRange([seen |-> <<>>, kept |-> <<>>, thrown |-> FALSE],
                                res[i].body.rows, 1, Len(res[i].body.rows)).seen
               ELSE <<>>)

SharedSeen == SeenUpTo(Len(pc))

\* `new Set<string>()` of line 61: the seen set an invocation starts with.
NewSeen == <<>>

\* uniqueRows = rows.filter(...): [seen, kept, thrown].
uniqueRows(rows) ==
    FilterRange([seen |-> NewSeen, kept |-> <<>>, thrown |-> FALSE],
                rows, 1, Len(rows))

-----------------------------------------------------------------------------
(* The grouping pass of fetchData *)

\* The pin had the end code been preferred to the start code.
pinOfEndFirst(r) ==
    IF Truthy(r.end_area_code) THEN r.end_area_code
    ELSE IF Truthy(r.start_area_code) THEN r.start_area_code
    ELSE JsString("Unknown")

\* const pin = r.start_area_code || r.end_area_code || "Unknown"
pinOf(r) == Or(Or(r.start_area_code, r.end_area_code), JsString("Unknown"))

\* `${pin}_${coords.join(",")}`
keyOf(pin, coords) ==
    JsToString(pin) \o "_" \o NumberToString(coords.lat)
        \o "," \o NumberToString(coords.lon)

\* The increment had it been an assignment: count = 1 on every push.
CountOnce(grouped, at, r) ==
    [grouped EXCEPT ![at].count = 1, ![at].samples = Append(@, r)]

\* The body of gpsList.forEach for one gps of record r: the bucket of the
\* key is created on first use, its count incremented, r pushed on samples.
\* grouped is the object's entries in insertion order.
\* grouped[key].count += 1; grouped[key].samples.push(r)
Count(grouped, at, r) ==
    [grouped EXCEPT ![at].count = @ + 1, ![at].samples = Append(@, r)]

IndexOf(grouped, key) == CHOOSE i \in 1..Len(grouped) : grouped[i].key = key

\* if (!grouped[key]) grouped[key] = { pincode: pin, coords, count: 0, samples: [] }
Ensure(grouped, key, pin, coords) ==
    IF \E i \in 1..Len(grouped) : grouped[i].key = key THEN grouped
    ELSE Append(grouped, [count |-> 0,
                          coords |-> <<coords.lat, coords.lon>>,
                          samples |-> <<>>, key |-> key, pincode |-> pin])

Upsert(g, key, r) == Count(g, IndexOf(g, key), r)

ObserveCoords(grouped, r, pin, coords, key) ==
    IF ~ coords.ok THEN grouped
    ELSE Upsert(Ensure(grouped, key, pin, coords), key, r)

ObserveParsed(grouped, r, pin, coords) ==
    ObserveCoords(grouped, r, pin, coords, keyOf(pin, coords))

Observe(grouped, r, pin, gps) ==
    IF ~ Truthy(gps) THEN grouped
    ELSE ObserveParsed(grouped, r, pin, cleanCoords(gps.s))

GroupWithPin(st, r, pin) ==
    [grouped |-> Observe(Observe(st.grouped, r, pin, r.start_gps),
                         r, pin, r.end_gps),
     pins |-> IF Truthy(pin) THEN SetAdd(st.pins, pin) ELSE st.pins]

\* One call of the uniqueRows.forEach callback.  st = [grouped, pins].
GroupStep(st, r) == GroupWithPin(st, r, pinOf(r))

\* The callback applied to rows[lo..hi] in order, halved as FilterRange is.
RECURSIVE GroupRange(_, _, _, _)
GroupRange(st, rows, lo, hi) ==
    IF DOMAIN st = {} \/ lo > hi THEN st
    ELSE IF lo = hi THEN GroupStep(st, rows[lo])
    ELSE LET mid == (lo + hi) \div 2
         IN  GroupRange(GroupRange(st, rows, lo, mid), rows, mid + 1, hi)

\* `grouped = {}` and `pins = new Set()` of lines 96-97.
NewGroups == [grouped |-> <<>>, pins |-> <<>>]

\* Object.values(grouped): the GroupedItems in insertion order of their keys.
Values(grouped) ==
    [i \in 1..Len(grouped) |->
        [count |-> grouped[i].count, coords |-> grouped[i].coords,
         samples |-> grouped[i].samples, pincode |-> grouped[i].pincode]]

\* [...pins].sort(): ordered by the string each value converts to; stable.
InsertAt(sorted, k, x) ==
    SubSeq(sorted, 1, k) \o <<x>> \o SubSeq(sorted, k + 1, Len(sorted))

\* x put after every element of sorted that is not greater than it.
Insert(sorted, x) ==
    InsertAt(sorted,
             Cardinality({i \in 1..Len(sorted) :
                 ~ StringLess(JsToString(x), JsToString(sorted[i]))}),
             x)

RECURSIVE SortPins(_)
SortPins(pins) ==
    IF pins = <<>> THEN <<>>
    ELSE Insert(SortPins(SubSeq(pins, 1, Len(pins) - 1)), pins[Len(pins)])

-----------------------------------------------------------------------------
(* The /api/data route and the response fetchData reads *)

\* GET of the route: what it answers for the text the upstream script sent.
\* Text that is not JSON is answered with status 500; JSON is passed on as it
\* was parsed (`rows` of line 32 is only logged).
GET(upstream) ==
    IF upstream.kind = "html"
    THEN [body |-> [rows |-> <<>>, kind |-> "error"], status |-> 500]
    ELSE [body |-> upstream, status |-> 200]

\* const rows = res.data.data || []
rowsOf(body) == IF body.kind = "wrapped" THEN body.rows ELSE <<>>

\* What one run of fetchData's body computes from the response: whether it
\* ended in the catch block, and otherwise the two values it publishes.
Caught == [data |-> <<>>, allPins |-> <<>>, thrown |-> TRUE]

Published(g) ==
    [data |-> Values(g.grouped), allPins |-> SortPins(g.pins), thrown |-> FALSE]

GroupAll(u) ==
    IF u.thrown THEN Caught
    ELSE Published(GroupRange(NewGroups, u.kept, 1, Len(u.kept)))

Run(response) ==
    IF response.status # 200 THEN Caught
    ELSE GroupAll(uniqueRows(rowsOf(response.body)))

-----------------------------------------------------------------------------
(* Colour and radius of a circle; the pin filter *)

\* The tiers had the thresholds been tested from the lowest up.
getColorAscending(c) ==
    IF c > 20 THEN "#FFA500"
    ELSE IF c > 100 THEN "#FFD700"
    ELSE IF c > 500 THEN "#32CD32"
    ELSE IF c > 1000 THEN "#006400"
    ELSE "#FF0000"

getColor(c) ==
    IF c > 1000 THEN "#006400"
    ELSE IF c > 500 THEN "#32CD32"
    ELSE IF c > 100 THEN "#FFD700"
    ELSE IF c > 20 THEN "#FFA500"
    ELSE "#FF0000"

\* floor(log2 n) for n >= 1.
RECURSIVE FloorLog2(_)
FloorLog2(n) == IF n < 2 THEN 0 ELSE 1 + FloorLog2(n \div 2)

\* The next `bits` binary fraction digits of log2 of the mantissa m, which
\* is scaled by 2^14 and lies in [2^14, 2^15): square, and halve on carry.
RECURSIVE FractionBits(_, _)
FractionBits(m, bits) ==
    IF bits = 0 THEN 0
    ELSE LET sq == (m * m) \div 2^14
         IN  IF sq >= 2^15
             THEN 2^(bits - 1) + FractionBits(sq \div 2, bits - 1)
             ELSE FractionBits(sq, bits - 1)

\* Math.log(n) for an integer n >= 1, in units of 10^-4, rounded down:
\* log2(n) to twelve binary fraction digits, times ln 2 = 0.6931.
Mantissa(n, e) == IF e <= 14 THEN n * 2^(14 - e) ELSE n \div 2^(e - 14)

Log2Fixed(n, e) == e * 2^12 + FractionBits(Mantissa(n, e), 12)

MathLog(n) == (Log2Fixed(n, FloorLog2(n)) * 6931) \div 2^12

Min(a, b) == IF a < b THEN a ELSE b
Max(a, b) == IF a > b THEN a ELSE b

\* What Math.max(50, NaN) evaluates to.
RadiusNaN == 0 - 1

\* getRadius with the zoom factor upside down: zoom / 12 for 12 / zoom.
getRadiusInverted(c, zoom) ==
    Max(50, Min((MathLog(c + 1) * 120 * zoom) \div (12 * 10^4), 1500))

\* getRadius, in whole map units rounded down.  12 / 0 is Infinity: the
\* product is then Infinity for a positive logarithm and NaN for log(1) = 0.
getRadius(c, zoom) ==
    IF zoom = 0
    THEN (IF MathLog(c + 1) = 0 THEN RadiusNaN ELSE Max(50, 1500))
    ELSE Max(50, Min((MathLog(c + 1) * 120 * 12) \div (zoom * 10^4), 1500))

\* data.filter((d) => !filterPin ? true : d.pincode.toString() === filterPin.trim())
Shown(d, pin) == pin = "" \/ JsToString(d.pincode) = Trim(pin)

RECURSIVE FilterData(_, _)
FilterData(items, pin) ==
    IF items = <<>> THEN <<>>
    ELSE (IF Shown(items[1], pin) THEN <<items[1]>> ELSE <<>>)
            \o FilterData(Tail(items), pin)

filteredData == FilterData(data, filterPin)

-----------------------------------------------------------------------------
(* Inputs *)

Row(sg, eg, sp, ep) ==
    [t |-> "object", start_gps |-> sg, end_gps |-> eg,
     start_area_code |-> sp, end_area_code |-> ep]

\* A null element of the rows array.
NullRow ==
    [t |-> "null", start_gps |-> JsUndefined, end_gps |-> JsUndefined,
     start_area_code |-> JsUndefined, end_area_code |-> JsUndefined]

RecA == Row(JsString("(12.97000,77.59000)"), JsString("(12.98000,77.60000)"),
            JsString("560001"), JsString("560002"))
\* A with start and end swapped, pins with them.
RecB == Row(JsString("(12.98000,77.60000)"), JsString("(12.97000,77.59000)"),
            JsString("560002"), JsString("560001"))
\* A written differently: a sixth decimal, a blank, a pin with a trailing blank.
RecA6 == Row(JsString("(12.970004, 77.59)"), JsString("(12.98,77.6)"),
             JsString("560001 "), JsString("560002"))
\* Coordinates with a unit suffix: parseFloat reads them, Number does not.
RecLenient == Row(JsString("(12.97abc,77.59)"), JsString("(12.99x,77.61)"),
                  JsString("560004"), JsString("560005"))
\* Only the start coordinate is strictly numeric.
RecHalf == Row(JsString("(13.01,77.7)"), JsString("(13.02km,77.8)"),
               JsString("560001"), JsString("560006"))
\* A trip that ends where it starts.
RecLoop == Row(JsString("(12.97,77.59)"), JsString("(12.97,77.59)"),
               JsString("560001"), JsString("560001"))
\* start_gps missing.
RecNoGps == Row(JsNull, JsString("(12.98,77.6)"),
                JsString("560001"), JsString("560002"))
\* start_gps a number, not a string.
RecNumGps == Row(JsNumber(5), JsString("(12.98,77.6)"),
                 JsString("560001"), JsString("560002"))
\* Postal codes as spreadsheet numbers.
RecNumPin == Row(JsString("(12.97,77.59)"), JsString("(12.95,77.5)"),
                 JsNumber(560001), JsNumber(560007))

Pool == <<RecA, RecB, RecA6, RecLenient, RecHalf, RecLoop,
          RecNoGps, NullRow, RecNumGps, RecNumPin>>

\* The longest batch of the model.
MaxBatch == 2

\* The batches: every sequence of at most MaxBatch records of the pool.
Batches ==
    UNION {{[j \in 1..n |-> Pool[ix[j]]] : ix \in [1..n -> 1..Len(Pool)]}
            : n \in 0..MaxBatch}

\* What the upstream script may send: a body {data: rows}, a bare array
\* of rows, a JSON object without data, or text that is not JSON.
Wrapped(rows) == [rows |-> rows, kind |-> "wrapped"]
Bare(rows) == [rows |-> rows, kind |-> "bare"]
Html == [rows |-> <<>>, kind |-> "html"]
ErrorObject == [rows |-> <<>>, kind |-> "error"]

InitialZoom == 11

\* The zoom levels of the map are 0..MaxZoom.
MaxZoom == 18

\* The specification of the pipeline lets the zoom move this far from the
\* initial one.
ZoomSpan == 1

NoResponse == [body |-> [rows |-> <<>>, kind |-> "none"], status |-> 0]

\* The invocations of fetchData of the model.
MaxRuns == 2
Runs == 1..MaxRuns

-----------------------------------------------------------------------------
(* The component *)

Init ==
    /\ data = <<>>
    /\ allPins = <<>>
    /\ zoomLevel = InitialZoom
    /\ filterPin = ""
    /\ pc = [i \in Runs |-> "idle"]
    /\ res = [i \in Runs |-> NoResponse]
    /\ count = 0
    /\ radius = getRadius(0, InitialZoom)

\* fetchData up to its await: axios.get is sent.
Request(i) ==
    /\ pc[i] = "idle"
    /\ pc' = [pc EXCEPT ![i] = "awaiting"]
    /\ UNCHANGED <<data, allPins, zoomLevel, filterPin, res, count, radius>>

\* The rest of fetchData, run when the route has answered what the upstream
\* sent: the rows are filtered and grouped and both results published, or
\* the catch block logs the error and publishes nothing.
Continue(i, response, out) ==
    /\ res' = [res EXCEPT ![i] = response]
    /\ pc' = [pc EXCEPT ![i] = IF out.thrown THEN "failed" ELSE "done"]
    /\ data' = IF out.thrown THEN data ELSE out.data
    /\ allPins' = IF out.thrown THEN allPins ELSE out.allPins
    /\ UNCHANGED <<zoomLevel, filterPin, count, radius>>

Answered(i, response) == Continue(i, response, Run(response))

Deliver(i, upstream) ==
    /\ pc[i] = "awaiting"
    /\ Answered(i, GET(upstream))

\* zoomend: setZoomLevel(e.target.getZoom()), and the circle drawn again.
ZoomEnd(z) ==
    /\ zoomLevel' = z
    /\ radius' = getRadius(count, z)
    /\ UNCHANGED <<data, allPins, filterPin, pc, res, count>>

\* onChange of the dropdown: the value of the chosen option, which is ""
\* for "All Pincodes" and String(pin) for the option of a pin.
SelectPin(k) ==
    /\ filterPin' = IF k = 0 THEN "" ELSE JsToString(allPins[k])
    /\ UNCHANGED <<data, allPins, zoomLevel, pc, res, count, radius>>

\* The Reset button.
Reset ==
    /\ filterPin # ""
    /\ filterPin' = ""
    /\ UNCHANGED <<data, allPins, zoomLevel, pc, res, count, radius>>

NearZooms ==
    {z \in 0..MaxZoom : z >= InitialZoom - ZoomSpan /\ z <= InitialZoom + ZoomSpan}

\* The mounted component: one fetch, then zooming and filtering.
Next ==
    \/ Request(1)
    \/ \E b \in Batches : Deliver(1, Wrapped(b))
    \/ \E b \in Batches : Deliver(1, Bare(b))
    \/ Deliver(1, Html)
    \/ Deliver(1, ErrorObject)
    \/ \E z \in NearZooms : ZoomEnd(z)
    \/ \E k \in 0..Len(allPins) : SelectPin(k)
    \/ Reset

Spec == Init /\ [][Next]_vars

-----------------------------------------------------------------------------
(* Several invocations of fetchData in flight at once *)

\* The batches the concurrent invocations are answered with.
ConcBatches ==
    << <<>>, <<RecA>>, <<RecB, RecHalf>>, <<RecLoop, RecA>>,
       <<RecA6, NullRow>>, <<RecNumPin, RecB>> >>

NextConcurrent ==
    \/ \E i \in Runs : Request(i)
    \/ \E i \in Runs : \E k \in 1..Len(ConcBatches) :
          Deliver(i, Wrapped(ConcBatches[k]))
    \/ \E i \in Runs : Deliver(i, Html)
    \/ \E k \in 0..Len(allPins) : SelectPin(k)
    \/ Reset

SpecConcurrent == Init /\ [][NextConcurrent]_vars

-----------------------------------------------------------------------------
(* getRadius over its inputs *)

\* The largest count of a rendered circle.
MaxCount == 1600

InitVisual ==
    /\ data = <<>>
    /\ allPins = <<>>
    /\ zoomLevel = InitialZoom
    /\ filterPin = ""
    /\ pc = [i \in Runs |-> "idle"]
    /\ res = [i \in Runs |-> NoResponse]
    /\ count \in 0..MaxCount
    /\ radius = getRadius(count, InitialZoom)

NextVisual == \E z \in 0..MaxZoom : ZoomEnd(z)

SpecVisual == InitVisual /\ [][NextVisual]_vars

-----------------------------------------------------------------------------
(* Many records at one endpoint *)

\* The i-th of the records that share the endpoint (12.97,77.59) and the
\* postal code 560001: the shared point is the start of the odd ones and
\* the end of the even ones, and the other endpoint differs from record to
\* record.
DenseRow(i) ==
    IF i % 2 = 1
    THEN Row(JsString("(12.97,77.59)"),
             JsString("(13." \o Padded(i, 5) \o ",77.6)"),
             JsString("560001"), JsString("560002"))
    ELSE Row(JsString("(13." \o Padded(i, 5) \o ",77.6)"),
             JsString("(12.97,77.59)"),
             JsString("560001"), JsString("560002"))

DenseBatch(n) == [i \in 1..n |-> DenseRow(i)]

\* The size of the scenario, and the sizes tried beside it.
ScenarioSize == 1000 + 500
MaxDense == 30
DenseSizes == (1..MaxDense) \cup {ScenarioSize}

NextDense ==
    \/ Request(1)
    \/ \E n \in DenseSizes : Deliver(1, Wrapped(DenseBatch(n)))
    \/ \E z \in NearZooms : ZoomEnd(z)
    \/ \E k \in 0..Len(allPins) : SelectPin(k)
    \/ Reset

SpecDense == Init /\ [][NextDense]_vars


-----------------------------------------------------------------------------
(* Properties of the pipeline *)

\* The rows the upstream sent to invocation i, whatever the body's shape.
Sent(i) == res[i].body.rows

\* An invocation that has received a 200 answer with a body {data: rows}.
Received(i) ==
    /\ pc[i] \in {"done", "failed"}
    /\ res[i].status = 200
    /\ res[i].body.kind = "wrapped"

\* The filter's state before its first record.
EmptyFilter == [seen |-> <<>>, kept |-> <<>>, thrown |-> FALSE]

\* The outcome of one invocation that runs alone on a response.
SoloGrouped(u) ==
    IF u.thrown THEN Caught
    ELSE Published(GroupRange([grouped |-> <<>>, pins |-> <<>>],
                              u.kept, 1, Len(u.kept)))

SoloRun(response) ==
    IF response.status # 200 THEN Caught
    ELSE SoloGrouped(FilterRange(EmptyFilter, rowsOf(response.body),
                                 1, Len(rowsOf(response.body))))

\* A record that reaches the deduplication step: an object with none of the
\* four fields missing and both coordinates strings.
Eligible(r) ==
    /\ r.t = "object"
    /\ ~ MissingField(r)
    /\ r.start_gps.t = "string" /\ r.end_gps.t = "string"

\* The normalized tuple of a record, and the tuple of the swapped record.
Tuple(r) ==
    <<clean(r.start_gps.s), clean(r.end_gps.s),
      Trim(JsToString(r.start_area_code)), Trim(JsToString(r.end_area_code))>>

Swapped(r) ==
    <<clean(r.end_gps.s), clean(r.start_gps.s),
      Trim(JsToString(r.end_area_code)), Trim(JsToString(r.start_area_code))>>

Equivalent(a, b) == Tuple(a) = Tuple(b) \/ Tuple(a) = Swapped(b)

\* Whether the filter keeps the record at position b of rows.
KeptAfter(before, r) ==
    /\ ~ before.thrown
    /\ Len(FilterStep(before, r).kept) = Len(before.kept) + 1

RetainedAt(rows, b) ==
    KeptAfter(FilterRange(EmptyFilter, rows, 1, b - 1), rows[b])

NoLaterEquivalent(rows) ==
    \A a, b \in 1..Len(rows) :
        (a < b /\ Eligible(rows[a]) /\ Eligible(rows[b])
               /\ Equivalent(rows[a], rows[b]))
            => ~ RetainedAt(rows, b)

\* C1: of two records of a batch whose normalized tuples are equal, or equal
\* after swapping start and end of one, the filter never retains the later
\* one: at most one of them survives, and it is the first in input order.
\* The rows that survive are exactly those retained at their position.
C1_FirstOfEquivalentsKept ==
    /\ NoLaterEquivalent(rowsOf(res[1].body))
    /\ Received(1) /\ pc[1] = "done" =>
          Len(uniqueRows(Sent(1)).kept)
            = Cardinality({b \in 1..Len(Sent(1)) : RetainedAt(Sent(1), b)})

\* C1 witness: the fetch has completed on a batch of two records that are
\* swaps of each other and not equal, and the first was retained.
C1_SwappedPairSeen ==
    /\ Received(1) /\ pc[1] = "done"
    /\ Len(Sent(1)) = 2
    /\ Eligible(Sent(1)[1]) /\ Eligible(Sent(1)[2])
    /\ Tuple(Sent(1)[1]) = Swapped(Sent(1)[2])
    /\ Tuple(Sent(1)[1]) # Tuple(Sent(1)[2])
    /\ RetainedAt(Sent(1), 1)
    /\ Len(data) = 2

\* The scenario {data: [A, B]}, B being A with start and end swapped.
SwapScenario == Received(1) /\ pc[1] = "done" /\ Sent(1) = <<RecA, RecB>>

HasBucket(pin, lat, lon, c) ==
    \E i \in 1..Len(data) :
        /\ data[i].pincode = JsString(pin)
        /\ data[i].coords = <<lat, lon>>
        /\ data[i].count = c

\* C2 as stated: in the scenario [A, B] exactly A survives and there are two
\* buckets, 560001 at (12.97,77.59) and 560002 at (12.98,77.60), of count 1.
C2_EndpointPinsAsStated ==
    SwapScenario =>
        /\ uniqueRows(Sent(1)).kept = <<RecA>>
        /\ Len(data) = 2
        /\ HasBucket("560001", 12970000, 77590000, 1)
        /\ HasBucket("560002", 12980000, 77600000, 1)

\* C2: in the scenario [A, B] exactly A survives and there are two buckets,
\* at (12.97,77.59) and at (12.98,77.60), each of count 1 and each carrying
\* the record's one postal code, its start code 560001.
C2_BothEndpointsCarryStartPin ==
    SwapScenario =>
        /\ uniqueRows(Sent(1)).kept = <<RecA>>
        /\ Len(data) = 2
        /\ HasBucket("560001", 12970000, 77590000, 1)
        /\ HasBucket("560001", 12980000, 77600000, 1)

\* C2 witness: the scenario has been run and its buckets published.
C2_ScenarioRun == SwapScenario /\ Len(data) = 2 /\ allPins # <<>>

\* A malformed row: not an object, or an object whose start_gps or end_gps is
\* a value that is neither missing nor a string.
NonString(v) == v.t \notin {"string", "null", "undefined"}

Malformed(r) == r.t # "object" \/ NonString(r.start_gps) \/ NonString(r.end_gps)

WellFormedRows(rows) == SelectSeq(rows, LAMBDA r : ~ Malformed(r))

Shows(out) == data = out.data /\ allPins = out.allPins

\* C3: a batch with malformed rows is processed with each malformed row
\* excluded by itself: what the dashboard shows afterwards is what the other
\* rows alone give.
C3_MalformedRowsExcluded ==
    Received(1) =>
        Shows(SoloRun([body |-> Wrapped(WellFormedRows(Sent(1))),
                           status |-> 200]))

\* C4: the count of every bucket is the number of distinct records among its
\* samples: no record is counted twice in one bucket.
C4_CountIsDistinctRecords ==
    \A i \in 1..Len(data) :
        data[i].count
          = Cardinality({data[i].samples[j] : j \in 1..Len(data[i].samples)})

\* What the rows give when they arrive as {data: rows}, if that run completes.
SameAsWrapped(out) == ~ out.thrown => Shows(out)

\* C7: after a 200 body that is a bare array of rows the dashboard shows what
\* it shows after the same rows inside {data: rows}.
C7_BareArrayAsWrapped ==
    (pc[1] \in {"done", "failed"} /\ res[1].status = 200
        /\ res[1].body.kind = "bare")
      => SameAsWrapped(SoloRun([body |-> Wrapped(Sent(1)), status |-> 200]))

\* The number of endpoints of r that cleanCoords parses.
Parses(gps) == IF gps.t = "string" /\ cleanCoords(gps.s).ok THEN 1 ELSE 0

ParsedEndpoints(r) == Parses(r.start_gps) + Parses(r.end_gps)

RECURSIVE SumOfCounts(_)
SumOfCounts(items) ==
    IF items = <<>> THEN 0 ELSE items[1].count + SumOfCounts(Tail(items))

RECURSIVE SumOfEndpoints(_)
SumOfEndpoints(kept) ==
    IF kept = <<>> THEN 0
    ELSE ParsedEndpoints(kept[1]) + SumOfEndpoints(Tail(kept))

\* C9: after a completed run the counts of all buckets add up to the number
\* of parsed endpoints of the surviving records: two for a survivor of which
\* both coordinates parse in cleanCoords, one when exactly one does.
C9_CountsSumToParsedEndpoints ==
    (Received(1) /\ pc[1] = "done") =>
        SumOfCounts(data) = SumOfEndpoints(uniqueRows(Sent(1)).kept)

\* C9 witness: a completed run with a survivor of which one coordinate
\* parses and a survivor of which both do.
C9_MixedSurvivors ==
    /\ Received(1) /\ pc[1] = "done"
    /\ \E a, b \in 1..Len(uniqueRows(Sent(1)).kept) :
          /\ ParsedEndpoints(uniqueRows(Sent(1)).kept[a]) = 1
          /\ ParsedEndpoints(uniqueRows(Sent(1)).kept[b]) = 2
    /\ SumOfCounts(data) = 3

\* C10: the postal code chosen in the dropdown selects at least one bucket.
C10_OfferedPinSelectsBucket == filterPin # "" => filteredData # <<>>

-----------------------------------------------------------------------------
(* Properties of the many-records scenario *)

\* The scenario has been run: ScenarioSize records, pairwise not duplicates,
\* sharing the endpoint (12.97,77.59) and the postal code 560001.
DenseScenario ==
    Received(1) /\ pc[1] = "done" /\ Len(Sent(1)) = ScenarioSize

SharedBucket(d) ==
    d.coords = <<12970000, 77590000>> /\ d.pincode = JsString("560001")

-----------------------------------------------------------------------------
(* Properties of getRadius *)

\* C6: at a positive zoom the radius lies in [50, 1500], does not decrease
\* when the count grows, and does not increase when the zoom grows.
C6_RadiusClampedMonotone ==
    zoomLevel > 0 =>
        /\ radius = getRadius(count, zoomLevel)
        /\ radius >= 50 /\ radius <= 1500
        /\ getRadius(count + 1, zoomLevel) >= radius
        /\ \A z \in zoomLevel..MaxZoom : getRadius(count, z) <= radius

\* C6 witness: after a zoom change a circle is drawn between the clamps, and
\* a closer zoom draws it strictly smaller.
C6_BetweenClamps ==
    /\ zoomLevel > 0 /\ zoomLevel # InitialZoom /\ zoomLevel < MaxZoom
    /\ radius > 50 /\ radius < 1500
    /\ getRadius(count, zoomLevel + 1) < radius

-----------------------------------------------------------------------------
(* Properties of concurrent invocations *)

Completes(i) == pc[i] = "awaiting" /\ pc'[i] = "done"

\* What is shown is what was shown at the start, or the whole result of one
\* completed invocation.
FromOneRun ==
    \/ data = <<>> /\ allPins = <<>>
    \/ \E i \in Runs : pc[i] = "done" /\ Shows(SoloRun(res[i]))

\* C8: invocations of fetchData do not share the seen set or the groups:
\* when an invocation completes, data and allPins are both what that
\* invocation alone computes from its response, whatever other invocations
\* did before; nothing else changes data or allPins, so that the two always
\* come from one and the same completed invocation.
C8_RunsIndependent ==
    /\ []FromOneRun
    /\ [][/\ \A i \in Runs :
                Completes(i) =>
                   /\ data' = SoloRun(res'[i]).data
                   /\ allPins' = SoloRun(res'[i]).allPins
          /\ (\A i \in Runs : ~ Completes(i)) => UNCHANGED <<data, allPins>>]_vars

\* C8 witness: two invocations have completed on batches that share a
\* fingerprint, and what is shown is the second one's own result.
C8_OverlappingRunsDone ==
    /\ pc[1] = "done" /\ pc[2] = "done"
    /\ Sent(1) = <<RecA>>
    /\ Sent(2) = <<RecB, RecHalf>>
    /\ data = SoloRun(res[2]).data
    /\ Len(data) = 3

====
